---- MODULE Spec2Model ----
(***************************************************************************)
(* simplecli: the dispatch loop (Run), the command registry               *)
(* (printCommands, the do_/help_ lookups) and the primitives exposed to   *)
(* the script (cliVariable, cliToggle, ...).                               *)
(*                                                                         *)
(* The repository holds three variants of the host program:               *)
(*   "part_001"     src/unnamed/part_001 (no help verb, no scratch file)  *)
(*   "main.go"      src/main.go          (help through help_<name>())     *)
(*   "example.lua"  src/example.lua, lines 108-543 (help strings, scratch *)
(*                  file, cli_cd, templates)                               *)
(* The variable `variant` fixes which one runs.  Spec runs the newest one *)
(* (example.lua); SpecAll runs any of the three.                          *)
(* SpecPrim runs the newest one with a script whose commands call        *)
(* cli_toggle, cli_cd and t (the template renderer); SpecVars runs it     *)
(* with a script that has a command for each variable primitive           *)
(* (cli_variable, cli_envvar, cli_toggle, cli_cd).                        *)
(*                                                                         *)
(* Text is modelled as a sequence of one-character strings, so that       *)
(* prefixes, trimming, splitting, sorting and number parsing are computed. *)
(***************************************************************************)
EXTENDS Integers, Sequences, FiniteSets, TLC

\* ---------------------------------------------------------------- bounds
\* Number of distinct names ioutil.TempFile can hand out.
MaxTmp == 2
\* Cap on the height of the script engine's value stack.
MaxStack == 2
\* Cap on the length of the text held by the path variable.
MaxPath == 6

VARIABLES
    variant,      \* which of the three host programs runs
    pc,           \* position of Run: Starting, Prompting, ReadingLine,
                  \* Dispatching, Running, Stopped, Crashed
    globals,      \* the Lua global table (the Variable Store)
    env,          \* the environment of the process (os.Environ)
    files,        \* the temporary files that exist, each with its size
    line,         \* the trimmed line being dispatched (kept until the next read)
    callee,       \* the function value being invoked while pc = "Running"
    callArgs,     \* the positional arguments it was invoked with
    tmpfilename,  \* the scratch file of the running dispatch, <<>> if none
    out,          \* lines printed since the last line was read
    stack,        \* the script engine's value stack
    last          \* which exit of the loop body the previous iteration took

vars == <<variant, pc, globals, env, files, line, callee, callArgs, tmpfilename,
          out, stack, last>>

Variants == {"part_001", "main.go", "example.lua"}

\* ------------------------------------------------------------------ text
\* The characters of the model, in byte order.
Alphabet == <<"\n", " ", "\"", "#", "'", "-", ".", "/",
              "0", "1", "2", "3", "4", "5", "6", "7", "8", "9", "=",
              "[", "\\", "]", "_",
              "a", "b", "c", "d", "e", "f", "g", "h", "i", "j", "k", "l", "m",
              "n", "o", "p", "q", "r", "s", "t", "u", "v", "w", "x", "y", "z",
              "{", "}">>

Ord(c) == CHOOSE i \in 1..Len(Alphabet) : Alphabet[i] = c

IsSpace(c) == c \in {" ", "\n"}

Digits == <<"0", "1", "2", "3", "4", "5", "6", "7", "8", "9">>
IsDigit(c) == \E i \in 1..10 : Digits[i] = c
DigitVal(c) == (CHOOSE i \in 1..10 : Digits[i] = c) - 1

\* strings.HasPrefix
HasPrefix(s, p) == Len(s) >= Len(p) /\ SubSeq(s, 1, Len(p)) = p

\* s[n:]
Drop(s, n) == SubSeq(s, n + 1, Len(s))

\* strings.HasSuffix
HasSuffix(s, p) == Len(s) >= Len(p) /\ SubSeq(s, Len(s) - Len(p) + 1, Len(s)) = p

\* strings.Split(s, "/"): cur is the piece being read, acc the pieces so far
RECURSIVE SplitSlash(_, _, _)
SplitSlash(s, cur, acc) ==
    IF s = <<>> THEN Append(acc, cur)
    ELSE IF Head(s) = "/" THEN SplitSlash(Tail(s), <<>>, Append(acc, cur))
    ELSE SplitSlash(Tail(s), Append(cur, Head(s)), acc)

\* strings.Join(pieces, "/")
RECURSIVE JoinSlash(_)
JoinSlash(pieces) ==
    IF pieces = <<>> THEN <<>>
    ELSE IF Len(pieces) = 1 THEN pieces[1]
    ELSE pieces[1] \o <<"/">> \o JoinSlash(Tail(pieces))

\* Go's < on strings: bytewise, a proper prefix is smaller.
RECURSIVE StrLess(_, _)
StrLess(a, b) ==
    IF b = <<>> THEN FALSE
    ELSE IF a = <<>> THEN TRUE
    ELSE IF Head(a) = Head(b) THEN StrLess(Tail(a), Tail(b))
    ELSE Ord(Head(a)) < Ord(Head(b))

RECURSIVE TrimLeft(_)
TrimLeft(s) == IF s # <<>> /\ IsSpace(Head(s)) THEN TrimLeft(Tail(s)) ELSE s

RECURSIVE TrimRight(_)
TrimRight(s) ==
    IF s # <<>> /\ IsSpace(s[Len(s)]) THEN TrimRight(SubSeq(s, 1, Len(s) - 1))
    ELSE s

\* a trim of the leading whitespace only
TrimSpace_LeftOnly(s) == TrimLeft(s)

\* strings.TrimSpace
TrimSpace(s) == TrimRight(TrimLeft(s))

\* strings.Split(s, "\n")
RECURSIVE SplitLines(_, _, _)
SplitLines(s, cur, acc) ==
    IF s = <<>> THEN Append(acc, cur)
    ELSE IF Head(s) = "\n" THEN SplitLines(Tail(s), <<>>, Append(acc, cur))
    ELSE SplitLines(Tail(s), Append(cur, Head(s)), acc)

\* decimal digits of a natural number
RECURSIVE NatToStr(_)
NatToStr(n) ==
    IF n < 10 THEN <<Digits[n + 1]>>
    ELSE NatToStr(n \div 10) \o <<Digits[(n % 10) + 1]>>

\* strconv.ParseFloat on the texts of the model: an optional sign and decimal
\* digits.  (Texts with ".", an exponent, a base prefix, "inf" or "nan" are
\* outside the inputs the model draws.)
RECURSIVE DigitsVal(_, _)
DigitsVal(s, acc) ==
    IF s = <<>> THEN acc ELSE DigitsVal(Tail(s), acc * 10 + DigitVal(Head(s)))

ParseFloat(s) ==
    LET neg  == s # <<>> /\ Head(s) = "-"
        body == IF neg THEN Tail(s) ELSE s
        ok   == body # <<>> /\ \A i \in 1..Len(body) : IsDigit(body[i])
    IN  [ok |-> ok,
         f  |-> IF ok THEN (IF neg THEN 0 - DigitsVal(body, 0)
                                   ELSE DigitsVal(body, 0))
                      ELSE 0]

\* -------------------------------------------------- shlex.Split (google/shlex)
\* The tokenizer's state machine.  st is its state, val the token being built,
\* toks the words returned so far.  Comment tokens are skipped by the lexer.
RECURSIVE shlexScan(_, _, _, _, _)
shlexScan(s, i, st, val, toks) ==
    IF i > Len(s) THEN
        \* end of input
        CASE st = "start"   -> [parts |-> toks, err |-> FALSE]
          [] st = "inWord"  -> [parts |-> Append(toks, val), err |-> FALSE]
          [] st = "comment" -> [parts |-> toks, err |-> FALSE]
          [] OTHER          -> [parts |-> toks, err |-> TRUE]
    ELSE
        LET c == s[i] IN
        CASE st = "start" ->
                 IF IsSpace(c) THEN shlexScan(s, i + 1, "start", <<>>, toks)
                 ELSE IF c = "\"" THEN shlexScan(s, i + 1, "quotingEscaping", <<>>, toks)
                 ELSE IF c = "'" THEN shlexScan(s, i + 1, "quoting", <<>>, toks)
                 ELSE IF c = "\\" THEN shlexScan(s, i + 1, "escaping", <<>>, toks)
                 ELSE IF c = "#" THEN shlexScan(s, i + 1, "comment", <<>>, toks)
                 ELSE shlexScan(s, i + 1, "inWord", <<c>>, toks)
          [] st = "inWord" ->
                 IF IsSpace(c) THEN shlexScan(s, i + 1, "start", <<>>, Append(toks, val))
                 ELSE IF c = "\"" THEN shlexScan(s, i + 1, "quotingEscaping", val, toks)
                 ELSE IF c = "'" THEN shlexScan(s, i + 1, "quoting", val, toks)
                 ELSE IF c = "\\" THEN shlexScan(s, i + 1, "escaping", val, toks)
                 ELSE shlexScan(s, i + 1, "inWord", Append(val, c), toks)
          [] st = "escaping" ->
                 shlexScan(s, i + 1, "inWord", Append(val, c), toks)
          [] st = "escapingQuoted" ->
                 shlexScan(s, i + 1, "quotingEscaping", Append(val, c), toks)
          [] st = "quotingEscaping" ->
                 IF c = "\"" THEN shlexScan(s, i + 1, "inWord", val, toks)
                 ELSE IF c = "\\" THEN shlexScan(s, i + 1, "escapingQuoted", val, toks)
                 ELSE shlexScan(s, i + 1, "quotingEscaping", Append(val, c), toks)
          [] st = "quoting" ->
                 IF c = "'" THEN shlexScan(s, i + 1, "inWord", val, toks)
                 ELSE shlexScan(s, i + 1, "quoting", Append(val, c), toks)
          [] st = "comment" ->
                 IF c = "\n" THEN shlexScan(s, i + 1, "start", <<>>, toks)
                 ELSE shlexScan(s, i + 1, "comment", val, toks)

shlexSplit(s) == shlexScan(s, 1, "start", <<>>, <<>>)

\* ---------------------------------------------------------------- values
\* Lua values.  A function value made by the script carries its declared
\* parameter count (Proto.NumParameters) and a description of its body; a
\* host function (built with L.NewFunction, or one of the base library) has
\* no Proto.
Nil == [t |-> "nil"]
Str(s) == [t |-> "string", s |-> s]
Num(n) == [t |-> "number", n |-> n]
Bool(b) == [t |-> "bool", b |-> b]
Tbl(a) == [t |-> "table", a |-> a]
LuaFn(np, op, arg, k) ==
    [t |-> "function", g |-> FALSE, np |-> np, op |-> op, arg |-> arg, k |-> k]
GFn(op) == [t |-> "function", g |-> TRUE, op |-> op]

\* LValue.String()
ValueString(v) ==
    CASE v.t = "nil"    -> <<"n", "i", "l">>
      [] v.t = "string" -> v.s
      [] v.t = "number" -> IF v.n < 0 THEN <<"-">> \o NatToStr(0 - v.n)
                                      ELSE NatToStr(v.n)
      [] v.t = "bool"   -> IF v.b THEN <<"t", "r", "u", "e">>
                                  ELSE <<"f", "a", "l", "s", "e">>
      [] OTHER          -> <<v.t, ": 0x">>

\* L.ToString(n): the text of a string or a number, "" for anything else
L_ToString(v) == IF v.t \in {"string", "number"} THEN ValueString(v) ELSE <<>>

\* lua.LVAsBool: everything but nil and false is true
LVAsBool(v) == ~(v.t = "nil" \/ (v.t = "bool" /\ ~v.b))

\* ----------------------------------------------------------------- names
N_banner       == <<"b", "a", "n", "n", "e", "r">>
N_prompt       == <<"p", "r", "o", "m", "p", "t">>
N_myvar        == <<"m", "y", "v", "a", "r">>
N_count        == <<"c", "o", "u", "n", "t">>
N_do_myvar     == <<"d", "o", "_", "m", "y", "v", "a", "r">>
N_do_set       == <<"d", "o", "_", "s", "e", "t">>
N_do_edit      == <<"d", "o", "_", "e", "d", "i", "t">>
N_do_get       == <<"d", "o", "_", "g", "e", "t">>
N_do_hello     == <<"d", "o", "_", "h", "e", "l", "l", "o">>
N_do_help      == <<"d", "o", "_", "h", "e", "l", "p">>
N_do_p         == <<"d", "o", "_", "p">>
N_do_b         == <<"d", "o", "_", "b">>
N_help_myvar   == <<"h", "e", "l", "p", "_", "m", "y", "v", "a", "r">>
N_cli_variable == <<"c", "l", "i", "_", "v", "a", "r", "i", "a", "b", "l", "e">>
N_cli_toggle   == <<"c", "l", "i", "_", "t", "o", "g", "g", "l", "e">>
N_cli_cd       == <<"c", "l", "i", "_", "c", "d">>
N_t            == <<"t">>
N_debug_mode   == <<"d", "e", "b", "u", "g", "_", "m", "o", "d", "e">>
N_cwd          == <<"c", "w", "d">>
N_tbl          == <<"t", "b", "l">>
N_do_debug     == <<"d", "o", "_", "d", "e", "b", "u", "g">>
N_do_toggle    == <<"d", "o", "_", "t", "o", "g", "g", "l", "e">>
N_do_cd        == <<"d", "o", "_", "c", "d">>
N_do_r         == <<"d", "o", "_", "r">>
N_args         == <<"a", "r", "g", "s">>
N_x            == <<"x">>
N_cli_envvar   == <<"c", "l", "i", "_", "e", "n", "v", "v", "a", "r">>
N_do_env       == <<"d", "o", "_", "e", "n", "v">>

GlobalNames ==
    {N_banner, N_prompt, N_myvar, N_count, N_do_myvar, N_do_set, N_do_edit,
     N_do_get, N_do_hello, N_do_help, N_do_p, N_do_b, N_help_myvar,
     N_cli_variable, N_cli_toggle, N_cli_cd, N_t, N_debug_mode, N_cwd, N_tbl,
     N_do_debug, N_do_toggle, N_do_cd, N_do_r, N_cli_envvar, N_do_env}

\* L.GetGlobal: a name never assigned reads as nil
GetGlobal(g, name) == IF name \in DOMAIN g THEN g[name] ELSE Nil

\* L.SetGlobal
SetGlobal(g, name, v) == [n \in DOMAIN g \cup {name} |-> IF n = name THEN v ELSE g[n]]

T_hello   == <<"h", "e", "l", "l", "o">>
T_foo     == <<"f", "o", "o">>
T_help    == <<"h", "e", "l", "p">>
T_do      == <<"d", "o", "_">>
T_helpPfx == <<"h", "e", "l", "p", "_">>
\* a help text with blank lines around it and indented lines
T_helptext == <<"\n", " ", "a", " ", "\n", " ", "b", "\n">>

\* ------------------------------------------------------------ the script
\* The script's function bodies, by the field op of a function value:
\*   "return"        return arg                       (banner, prompt, help_x)
\*   "error"         error("...")
\*   "noop"          io.write("Another hello world!\n")     (do_anotherhello)
\*   "cli_variable"  cli_variable(arg, P[1])  where P is parameter number k
\*   "tempfile"      os.execute("... " .. P ..) where P is parameter number k:
\*                   the body may write the file named P, remove it, or fail
\*   "print"         the base library's print (a host function)
\*   "cli_toggle"    cli_toggle(arg) when k = 0, cli_toggle(P[1]) otherwise
\*   "cli_cd"        cli_cd(arg, P[1])
\*   "cli_envvar"    cli_envvar(arg, P[1])
\*   "template"      local count = "l"; print(t(P[1]))
\*   "go:..."        a function registered by registerLuaFunctions

\* The functions registerLuaFunctions adds to the globals (cli_cd and t exist
\* in example.lua only).
registerLuaFunctions(v, g) ==
    [n \in DOMAIN g |->
       CASE n = N_cli_variable -> GFn("go:cliVariable")
         [] n = N_cli_envvar   -> GFn("go:cliEnvvar")
         [] n = N_cli_toggle   -> GFn("go:cliToggle")
         [] n = N_cli_cd /\ v = "example.lua" -> GFn("go:cliCd")
         [] n = N_t /\ v = "example.lua"      -> GFn("go:cliTemplate")
         [] OTHER -> g[n]]

\* How banner and prompt are declared: both return text, the banner fails, or
\* the prompt fails.
StartFns == {"ok", "banner fails", "prompt fails", "none"}

\* The globals after the script has been loaded.
Script(startFns, doHelp, doP, doB, helpMyvar) ==
      [n \in GlobalNames |->
        CASE n = N_banner ->
                 CASE startFns = "ok" -> LuaFn(0, "return", <<"E", "x">>, 0)
                   [] startFns = "banner fails" -> LuaFn(0, "error", <<>>, 0)
                   [] OTHER -> Nil
          [] n = N_prompt ->
                 CASE startFns = "ok" -> LuaFn(0, "return", <<">", " ">>, 0)
                   [] startFns = "prompt fails" -> LuaFn(0, "error", <<>>, 0)
                   [] OTHER -> Nil
          [] n = N_myvar    -> Str(T_hello)
          [] n = N_count    -> Num(5)
          \* README: function do_myvar(cmd, args) cli_variable("myvar", args[1]) end
          [] n = N_do_myvar -> LuaFn(2, "cli_variable", N_myvar, 2)
          \* function do_set(args) cli_variable("count", args[1]) end
          [] n = N_do_set   -> LuaFn(1, "cli_variable", N_count, 1)
          \* example.lua: function do_edit(cmd, args, tempfile)
          [] n = N_do_edit  -> LuaFn(3, "tempfile", <<>>, 3)
          \* function do_get(args, tempfile)
          [] n = N_do_get   -> LuaFn(2, "tempfile", <<>>, 2)
          \* example.lua: function do_anotherhello()
          [] n = N_do_hello -> LuaFn(0, "noop", <<>>, 0)
          [] n = N_do_help  -> IF doHelp THEN LuaFn(2, "noop", <<>>, 0) ELSE Nil
          \* do_p = print
          [] n = N_do_p     -> IF doP THEN GFn("print") ELSE Nil
          [] n = N_do_b     ->
                 CASE doB = "string" -> Str(<<"b">>)
                   [] doB = "function" -> LuaFn(1, "error", <<>>, 0)
                   [] OTHER -> Nil
          [] n = N_help_myvar ->
                 CASE helpMyvar = "string" -> Str(T_helptext)
                   [] helpMyvar = "function" -> LuaFn(0, "return", T_helptext, 0)
                   [] OTHER -> Nil
          [] OTHER -> Nil]

Scripts ==
    { Script(sf, h, p, b, hm) :
        sf \in StartFns, h \in BOOLEAN, p \in BOOLEAN,
        b \in {"absent", "string", "function"},
        hm \in {"absent", "string", "function"} }

\* Text of the script that also uses cli_toggle, cli_cd and t.
T_v == <<"v">>
T_k == <<"k">>

\* A table with the one entry k -> v (Tbl is a table with an array part only).
MapTbl(k, v) == [t |-> "table", a |-> <<>>, hk |-> k, hv |-> v]

\* A script that also has commands for the boolean, path and template
\* primitives:
\*   tbl = { k = "v" }
\*   function do_debug(cmd, args) cli_toggle("debug_mode") end    (example.lua)
\*   function do_toggle(args) cli_toggle(args[1]) end
\*   function do_cd(args) cli_cd("cwd", args[1]) end
\*   function do_r(args) local count = "l"; print(t(args[1])) end
PrimitivesScript ==
    LET base == Script("ok", TRUE, TRUE, "function", "string") IN
    [n \in GlobalNames |->
       CASE n = N_tbl       -> MapTbl(T_k, Str(T_v))
         [] n = N_do_debug  -> LuaFn(2, "cli_toggle", N_debug_mode, 0)
         [] n = N_do_toggle -> LuaFn(1, "cli_toggle", <<>>, 1)
         [] n = N_do_cd     -> LuaFn(1, "cli_cd", N_cwd, 1)
         [] n = N_do_r      -> LuaFn(1, "template", <<>>, 1)
         [] OTHER -> base[n]]

\* A script with a command for each of the variable primitives (myvar and
\* count are declared as in every script: myvar = "hello", count = 5):
\*   function do_set(args) cli_variable("count", args[1]) end
\*   function do_env(args) cli_envvar("x", args[1]) end
\*   function do_toggle(args) cli_toggle(args[1]) end
\*   function do_cd(args) cli_cd("cwd", args[1]) end
VariablesScript ==
    LET base == Script("ok", TRUE, TRUE, "function", "string") IN
    [n \in GlobalNames |->
       CASE n = N_do_env    -> LuaFn(1, "cli_envvar", N_x, 1)
         [] n = N_do_toggle -> LuaFn(1, "cli_toggle", <<>>, 1)
         [] n = N_do_cd     -> LuaFn(1, "cli_cd", N_cwd, 1)
         [] OTHER -> base[n]]

\* os.Environ(): the variables of the process environment
EnvNames == {N_myvar, N_count, N_x}
Environ == [n \in EnvNames |-> <<"e", "_">> \o n]

\* The lines the user types (before trimming).
Lines ==
    { N_myvar \o <<" ">> \o T_foo,                      \* myvar foo
      <<" ">> \o N_myvar \o <<" ">>,                    \* " myvar "
      T_help,                                           \* help
      T_help \o <<" ">> \o N_myvar,                     \* help myvar
      T_help \o <<" ">> \o <<"z">>,                     \* help z
      <<"#", " ", "c">>,                                \* # c
      <<"s", "e", "t", " ", "\"", "1">>,                \* set "1
      <<"s", "e", "t", " ", "'", "1", "2", "'">>,       \* set '12'
      <<"s", "e", "t", " ", "z">>,                      \* set z
      <<"s", "e", "t">>,                                \* set
      <<"e", "d", "i", "t">>,                           \* edit
      <<"g", "e", "t">>,                                \* get
      <<"h", "e", "l", "l", "o">>,                      \* hello
      <<"p">>,                                          \* p
      <<"b">>,                                          \* b
      <<"z">>,                                          \* z
      <<" ", " ">> }                                    \* blank

\* The lines typed to the script that uses every primitive.
L_toggle_debug == <<"t", "o", "g", "g", "l", "e", " ", "d", "e", "b", "u", "g", "_", "m", "o", "d", "e">>
L_toggle_count == <<"t", "o", "g", "g", "l", "e", " ", "c", "o", "u", "n", "t">>
L_toggle_myvar == <<"t", "o", "g", "g", "l", "e", " ", "m", "y", "v", "a", "r">>
L_debug        == <<"d", "e", "b", "u", "g">>
L_cd           == <<"c", "d">>
L_cd_a         == <<"c", "d", " ", "a">>
L_cd_a_slash   == <<"c", "d", " ", "a", "/">>
L_cd_a_b       == <<"c", "d", " ", "a", "/", "b">>
L_cd_up        == <<"c", "d", " ", ".", ".">>
L_cd_dot       == <<"c", "d", " ", ".">>
L_cd_abs       == <<"c", "d", " ", "/", "a">>
L_cd_a_slash2  == <<"c", "d", " ", "a", "/", "/">>
L_r_count      == <<"r", " ", "{", "{", "c", "o", "u", "n", "t", "}", "}">>
L_r_myvar      == <<"r", " ", "{", "{", "m", "y", "v", "a", "r", "}", "}">>
L_r_x          == <<"r", " ", "{", "{", "x", "}", "}">>
L_r_unset      == <<"r", " ", "a", "{", "{", "z", "z", "}", "}", "b">>
L_r_tbl        == <<"r", " ", "{", "{", "t", "b", "l", "[", "k", "]", "}", "}">>
L_r_arg        == <<"r", " ", "{", "{", "a", "r", "g", "s", "[", "2", "]", "}", "}", " ", "v">>
L_r_banner     == <<"r", " ", "{", "{", "b", "a", "n", "n", "e", "r", "}", "}">>
L_r_fails      == <<"r", " ", "a", "{", "{", "d", "o", "_", "b", "}", "}">>
L_r_open       == <<"r", " ", "a", "{", "{", "x">>
L_r_do_debug   == <<"r", " ", "{", "{", "d", "o", "_", "d", "e", "b", "u", "g", "}", "}">>
L_r_cli_cd     == <<"r", " ", "{", "{", "c", "l", "i", "_", "c", "d", "}", "}">>

PrimitiveLines ==
    { L_toggle_debug, L_toggle_count, L_toggle_myvar, L_debug,
      L_cd, L_cd_a, L_cd_a_slash, L_cd_a_b, L_cd_up, L_cd_dot, L_cd_abs,
      L_cd_a_slash2,
      L_r_count, L_r_myvar, L_r_x, L_r_unset, L_r_tbl, L_r_arg, L_r_banner,
      L_r_fails, L_r_open, L_r_do_debug, L_r_cli_cd,
      T_help,                                           \* help
      T_help \o <<" ">> \o N_myvar,                     \* help myvar
      <<"#", " ", "c">>,                                \* # c
      <<"s", "e", "t", " ", "\"", "1">>,                \* set "1
      <<"p">>,                                          \* p
      <<"z">>,                                          \* z
      <<" ", " ">> }                                    \* blank

\* The lines typed to the script of the variable primitives.
VariableLines ==
    { <<"s", "e", "t">>,                                \* set
      <<"s", "e", "t", " ", "z">>,                      \* set z
      <<"s", "e", "t", " ", "'", "1", "2", "'">>,       \* set '12'
      <<"e", "n", "v">>,                                \* env
      <<"e", "n", "v", " ", "v">>,                      \* env v
      L_toggle_count, L_cd, L_cd_a,
      N_myvar,                                          \* myvar
      T_help,                                           \* help
      T_help \o <<" ">> \o N_myvar,                     \* help myvar
      <<"#", " ", "c">>,                                \* # c
      <<"s", "e", "t", " ", "\"", "1">>,                \* set "1
      <<"p">>,                                          \* p
      <<"z">>,                                          \* z
      <<" ", " ">> }                                    \* blank

\* The lines the user may type to the script loaded in g: PrimitiveLines to
\* PrimitivesScript (the script that defines do_r), VariableLines to
\* VariablesScript (the script that defines do_env), Lines to the others.
TypedLines(g) ==
    CASE GetGlobal(g, N_do_r).t = "function"   -> PrimitiveLines
      [] GetGlobal(g, N_do_env).t = "function" -> VariableLines
      [] OTHER -> Lines

\* ------------------------------------------------------------ primitives
\* fmt.Printf("%s=%s\n", varname, L.GetGlobal(varname).String())
Confirmation(g, varname) == varname \o <<"=">> \o ValueString(GetGlobal(g, varname))

\* cliVariable without the numeric branch (as in part_001).
cliVariable_NoNumberCheck(v, g, varname, value) ==
    LET g2 == IF value # <<>> THEN SetGlobal(g, varname, Str(value)) ELSE g
    IN  [globals |-> g2, out |-> <<Confirmation(g2, varname)>>]

\* cliVariable(varname, value): the globals after the call and what it prints.
\* (part_001 has no numeric branch: it always stores the text.)
cliVariable(v, g, varname, value) ==
    LET vartype == GetGlobal(g, varname).t
        parsed  == ParseFloat(value)
        done(g2) == [globals |-> g2, out |-> <<Confirmation(g2, varname)>>]
    IN  IF value # <<>> THEN
            IF v # "part_001" /\ vartype = "number" THEN
                IF ~parsed.ok THEN
                    [globals |-> g,
                     out |-> << <<"You must provide a number for numeric variable ">>
                                \o varname >>]
                ELSE done(SetGlobal(g, varname, Num(parsed.f)))
            ELSE done(SetGlobal(g, varname, Str(value)))
        ELSE done(g)

\* os.Getenv: a variable that is not set reads as the empty text
Getenv(e, name) == IF name \in DOMAIN e THEN e[name] ELSE <<>>

\* os.Setenv: an empty name or a name with "=" in it is refused (the error is
\* dropped by cliEnvvar)
Setenv(e, name, value) ==
    IF name = <<>> \/ \E i \in 1..Len(name) : name[i] = "="
    THEN e
    ELSE [k \in DOMAIN e \cup {name} |-> IF k = name THEN value ELSE e[k]]

\* cliEnvvar(varname, value): the environment after the call and what it
\* prints.
cliEnvvar(e, varname, value) ==
    LET e2 == IF value # <<>> THEN Setenv(e, varname, value) ELSE e
    IN  [env |-> e2, out |-> <<varname \o <<"=">> \o Getenv(e2, varname)>>]

\* cliToggle taking only the boolean true as true.
cliToggle_BoolOnly(g, varname) ==
    LET cur == GetGlobal(g, varname)
        g2  == SetGlobal(g, varname, Bool(~(cur.t = "bool" /\ cur.b)))
    IN  [globals |-> g2, out |-> <<Confirmation(g2, varname)>>]

\* cliToggle storing true whatever the current value is.
cliToggle_AlwaysTrue(g, varname) ==
    LET g2 == SetGlobal(g, varname, Bool(TRUE))
    IN  [globals |-> g2, out |-> <<Confirmation(g2, varname)>>]

\* cliToggle(varname): curr := lua.LVAsBool(L.GetGlobal(varname)); store !curr
cliToggle(g, varname) ==
    LET curr == LVAsBool(GetGlobal(g, varname))
        g2   == SetGlobal(g, varname, Bool(~curr))
    IN  [globals |-> g2, out |-> <<Confirmation(g2, varname)>>]

\* The loop of cliCd over the pieces of the new value: "." is skipped, ".."
\* drops the last piece of cwd if there is one, anything else is appended.
RECURSIVE Walk(_, _)
Walk(cwd, pieces) ==
    IF pieces = <<>> THEN cwd
    ELSE LET part == Head(pieces) IN
         Walk(CASE part = <<".">> -> cwd
                [] part = <<".", ".">> ->
                     IF Len(cwd) > 0 THEN SubSeq(cwd, 1, Len(cwd) - 1) ELSE cwd
                [] OTHER -> Append(cwd, part),
              Tail(pieces))

\* What a call of cliCd returns: the globals after it, what it printed, and
\* whether it panicked.
cdDone(g2, varname) ==
    [globals |-> g2, out |-> <<Confirmation(g2, varname)>>, panic |-> FALSE]

\* The last branch of cliCd, for a value that is not empty and does not start
\* with "/" (oldvalue[1:] of an empty string is out of range: a panic).
cdRelative(g, varname, value) ==
    LET pieces   == SplitSlash(value, <<>>, <<>>)
        oldvalue == ValueString(GetGlobal(g, varname))
        g1   == IF oldvalue = <<>> THEN SetGlobal(g, varname, Str(<<"/">>)) ELSE g
        cwd0 == SplitSlash(Drop(oldvalue, 1), <<>>, <<>>)
        cwd1 == IF cwd0[Len(cwd0)] = <<>> THEN SubSeq(cwd0, 1, Len(cwd0) - 1)
                                         ELSE cwd0
        cwd2 == IF Len(cwd1) = 1 /\ cwd1[1] = <<>> THEN <<>> ELSE cwd1
        joined   == <<"/">> \o JoinSlash(Walk(cwd2, pieces))
        newvalue == IF ~HasSuffix(joined, <<"/">>) THEN joined \o <<"/">>
                                                  ELSE joined
    IN  IF Len(oldvalue) < 1 THEN [globals |-> g1, out |-> <<>>, panic |-> TRUE]
        ELSE cdDone(SetGlobal(g1, varname, Str(newvalue)), varname)

\* cliCd leaving the variable alone when the value is empty.
cliCd_EmptyReads(g, varname, value) ==
    IF Len(value) = 0 THEN cdDone(g, varname)
    ELSE IF HasPrefix(value, <<"/">>)
         THEN cdDone(SetGlobal(g, varname, Str(value)), varname)
    ELSE cdRelative(g, varname, value)

\* cliCd(varname, value)
cliCd(g, varname, value) ==
    IF Len(value) = 0 THEN cdDone(SetGlobal(g, varname, Str(<<"/">>)), varname)
    ELSE IF HasPrefix(value, <<"/">>)
         THEN cdDone(SetGlobal(g, varname, Str(value)), varname)
    ELSE cdRelative(g, varname, value)

\* ------------------------------------------------------------- templates
\* The entries of the map `vars`: a text, or a fasttemplate.TagFunc that calls
\* the global function of that name.
Text(s) == [kind |-> "text", s |-> s]
Func(name) == [kind |-> "func", name |-> name]

\* tbl.ForEach: the entries of a table, each a key (as text) and a value
TableEntries(v) ==
    { <<NatToStr(i), Str(v.a[i])>> : i \in 1..Len(v.a) } \cup
    (IF "hk" \in DOMAIN v THEN {<<v.hk, v.hv>>} ELSE {})

\* the key k + "[" + tblk + "]"
FlatKey(k, tblk) == k \o <<"[">> \o tblk \o <<"]">>

\* Assignments to the map: the entries of top replace those of base.
Override(base, top) ==
    [k \in DOMAIN base \cup DOMAIN top |-> IF k \in DOMAIN top THEN top[k] ELSE base[k]]

\* for _, envstr := range os.Environ(): vars[parts[0]] = parts[1]
FromEnv(e) == [k \in DOMAIN e |-> Text(e[k])]

\* globals.ForEach: names starting with "_" are skipped; strings, numbers and
\* booleans enter as text, functions as tag functions, tables entry by entry.
FromGlobals(g) ==
    LET seen   == {k \in DOMAIN g : g[k].t # "nil" /\ ~HasPrefix(k, <<"_">>)}
        scalar == {k \in seen : g[k].t \in {"string", "number", "bool"}}
        funcs  == {k \in seen : g[k].t = "function"}
        tables == {k \in seen : g[k].t = "table"}
        \* the entries of the tables, each with the name of its table
        flat   == UNION { {<<k, e>> : e \in TableEntries(g[k])} : k \in tables }
    IN  [k \in scalar \cup funcs \cup {FlatKey(p[1], p[2][1]) : p \in flat} |->
           IF k \in scalar THEN Text(ValueString(g[k]))
           ELSE IF k \in funcs THEN Func(k)
           ELSE LET p == CHOOSE q \in flat : FlatKey(q[1], q[2][1]) = k
                IN  Text(ValueString(p[2][2]))]

\* L.GetLocal(debug, idx) for idx = 1, 2, ...: the locals of the frame, in
\* order; a table enters entry by entry, anything else as its text.
RECURSIVE FromLocals(_)
FromLocals(locals) ==
    IF locals = <<>> THEN <<>>
    ELSE LET n    == Len(locals)
             k    == locals[n][1]
             v    == locals[n][2]
             rest == FromLocals(SubSeq(locals, 1, n - 1))
         IN  IF v.t = "table"
             THEN Override(rest,
                    [fk \in {FlatKey(k, e[1]) : e \in TableEntries(v)} |->
                       LET e == CHOOSE d \in TableEntries(v) : FlatKey(k, d[1]) = fk
                       IN  Text(ValueString(e[2]))])
             ELSE Override(rest, [fk \in {k} |-> Text(ValueString(v))])

\* The map built with the environment assigned last.
TemplateScope_EnvLast(e, g, locals) ==
    Override(Override(FromLocals(locals), FromGlobals(g)), FromEnv(e))

\* The map `vars` of cliTemplate: the environment, then the globals, then the
\* locals of the frame, each assignment replacing an earlier one.
TemplateScope(e, g, locals) ==
    Override(Override(FromEnv(e), FromGlobals(g)), FromLocals(locals))

\* strings.Index(s, cc): the first position of the two-character tag cc, 0 if
\* there is none
IndexTag(s, c) ==
    LET I == {i \in 1..(Len(s) - 1) : s[i] = c /\ s[i + 1] = c}
    IN  IF I = {} THEN 0 ELSE CHOOSE i \in I : \A j \in I : i <= j

\* fasttemplate.NewTemplate(s, "{{", "}}"): the texts around the tags and the
\* tags, or an error when a start tag has no end tag
RECURSIVE NewTemplate(_, _, _)
NewTemplate(s, texts, tags) ==
    LET n == IndexTag(s, "{") IN
    IF n = 0 THEN [err |-> FALSE, texts |-> Append(texts, s), tags |-> tags]
    ELSE LET rest == Drop(s, n + 1)
             m    == IndexTag(rest, "}")
         IN  IF m = 0 THEN [err |-> TRUE, texts |-> texts, tags |-> tags]
             ELSE NewTemplate(Drop(rest, m + 1),
                              Append(texts, SubSeq(s, 1, n - 1)),
                              Append(tags, SubSeq(rest, 1, m - 1)))

\* What a call made from a template returns: the globals after it, what it
\* printed, whether it failed, and the one result (nil if it returns none).
TagResult(g, o, e, ret) == [globals |-> g, out |-> o, err |-> e, ret |-> ret]

\* ... for a host function that returns nothing, r being what it did
HostResult(r) ==
    TagResult(r.globals, r.out, "panic" \in DOMAIN r /\ r.panic, Nil)

\* L.CallByParam(P{Fn: f, NRet: 1, Protect: true}) with no argument, as
\* cliTemplateFunction makes it.  A script function that reads a parameter
\* (P[1], or a file name) finds nil there and fails.
CallTag(v, f, g) ==
    CASE f.t # "function" -> TagResult(g, <<>>, TRUE, Nil)
      [] f.op = "return" -> TagResult(g, <<>>, FALSE, Str(f.arg))
      [] f.op = "noop"   -> TagResult(g, << <<"Another hello world!">> >>, FALSE, Nil)
      [] f.op = "cli_toggle" /\ f.k = 0 -> HostResult(cliToggle(g, f.arg))
      [] f.op = "go:cliToggle"   -> HostResult(cliToggle(g, <<>>))
      [] f.op = "go:cliVariable" -> HostResult(cliVariable(v, g, <<>>, <<>>))
      [] f.op = "go:cliCd"       -> HostResult(cliCd(g, <<>>, <<>>))
      \* cli_envvar() with no argument only prints
      [] f.op = "go:cliEnvvar"   ->
             TagResult(g, cliEnvvar(env, <<>>, <<>>).out, FALSE, Nil)
      \* t() with no argument renders the empty template
      [] f.op = "go:cliTemplate" -> TagResult(g, <<>>, FALSE, Str(<<>>))
      [] f.op = "print" -> TagResult(g, << <<>> >>, FALSE, Nil)
      [] OTHER -> TagResult(g, <<>>, TRUE, Nil)

\* What a tag function writes: retval := L.Get(-1).String()
Written(r) ==
    [globals |-> r.globals, out |-> r.out, err |-> r.err, text |-> ValueString(r.ret)]

\* fasttemplate's stdTagFunc: what one tag writes.  A tag that is no key of
\* vars writes nothing; a text is written as it is; a tag function is called
\* and the text of its result written.
stdTagFunc(v, tag, scope, g) ==
    IF tag \notin DOMAIN scope
    THEN [globals |-> g, out |-> <<>>, err |-> FALSE, text |-> <<>>]
    ELSE IF scope[tag].kind = "text"
    THEN [globals |-> g, out |-> <<>>, err |-> FALSE, text |-> scope[tag].s]
    ELSE Written(CallTag(v, GetGlobal(g, scope[tag].name), g))

\* The render so far (st) after the text before a tag and what the tag wrote
\* (w): when a tag function fails ExecuteString panics, nothing is returned.
WriteTag(st, text, w) ==
    [globals |-> w.globals, out |-> st.out \o w.out, panic |-> w.err,
     text |-> IF w.err THEN <<>> ELSE st.text \o text \o w.text]

\* t.ExecuteString(vars): the texts and the values of the tags in turn,
\* from the render so far.
RECURSIVE ExecuteString(_, _, _, _, _)
ExecuteString(v, texts, tags, scope, st) ==
    IF st.panic THEN st
    ELSE IF tags = <<>> THEN [st EXCEPT !.text = @ \o texts[1]]
    ELSE ExecuteString(v, Tail(texts), Tail(tags), scope,
                       WriteTag(st, Head(texts),
                                stdTagFunc(v, Head(tags), scope, st.globals)))

\* What cliTemplate returns for a template t: the message of NewTemplate and
\* no value (read as nil by the script), or the text ExecuteString built.
Rendered(t, g, r) ==
    IF t.err
    THEN [globals |-> g, out |-> << <<"Cannot find end tag">> >>,
          panic |-> FALSE, ret |-> Nil]
    ELSE [globals |-> r.globals, out |-> r.out, panic |-> r.panic,
          ret |-> Str(r.text)]

\* The render before the first tag.
RenderStart(g) == [globals |-> g, out |-> <<>>, panic |-> FALSE, text |-> <<>>]

\* A scope in which every tag of the template that is no key is "nil".
MissingAsNil(t, scope) ==
    Override([k \in {t.tags[i] : i \in 1..Len(t.tags)} |-> Text(<<"n", "i", "l">>)],
             scope)

\* cliTemplate with the template already parsed.
renderParsed(v, g, scope, t) ==
    Rendered(t, g, IF t.err THEN RenderStart(g)
                   ELSE ExecuteString(v, t.texts, t.tags, scope, RenderStart(g)))

\* cliTemplate rendering a tag that is no key of vars as the text "nil".
cliTemplate_MissingAsNil(v, g, e, locals, templateString) ==
    LET t == NewTemplate(templateString, <<>>, <<>>)
    IN  renderParsed(v, g, MissingAsNil(t, TemplateScope(e, g, locals)), t)

\* cliTemplate(templateString), called from a frame with the given locals:
\* the globals after it, what it printed, whether it panicked, and what it
\* returns to the script.
cliTemplate(v, g, e, locals, templateString) ==
    renderParsed(v, g, TemplateScope(e, g, locals),
                 NewTemplate(templateString, <<>>, <<>>))

\* ------------------------------------------------------- calling the script
\* The value a Lua function sees in its i-th parameter: missing arguments are nil.
Param(actuals, i) == IF i >= 1 /\ i <= Len(actuals) THEN actuals[i] ELSE Nil

\* The Lua expression v[1]: the first element of a table, nil for a string
\* (strings index the string library), an error for anything else.
Index1(v) ==
    CASE v.t = "table"  -> [err |-> FALSE,
                            v |-> IF Len(v.a) >= 1 THEN Str(v.a[1]) ELSE Nil]
      [] v.t = "string" -> [err |-> FALSE, v |-> Nil]
      [] OTHER          -> [err |-> TRUE, v |-> Nil]

\* The file system holds a set of files, each a name and a size.
Exists(fs, name) == \E f \in fs : f.name = name

\* os.Remove: removing a file that is not there changes nothing
Remove(fs, name) == { f \in fs : f.name # name }

\* writing to a file (creating it if need be) leaves it non-empty
WriteFile(fs, name) == Remove(fs, name) \cup {[name |-> name, size |-> 1]}

\* ioutil.TempFile creates an empty file
CreateEmpty(fs, name) == fs \cup {[name |-> name, size |-> 0]}

\* What a call did: the globals, the files and the environment after it, what
\* it printed, whether it raised an error.
Outcome(g, fs, o, e) ==
    [globals |-> g, files |-> fs, out |-> o, err |-> e, env |-> env]

\* print(r) where r is what t(...) did: a panic in t ends the command before
\* print runs.
Printed(r, fs) ==
    IF r.panic THEN Outcome(r.globals, fs, r.out, TRUE)
    ELSE Outcome(r.globals, fs, r.out \o <<ValueString(r.ret)>>, FALSE)

\* The locals of the frame of do_r when it calls t: its parameter args and
\* the local count.
LocalsOfR(actuals) ==
    << <<N_args, Param(actuals, 1)>>, <<N_count, Str(<<"l">>)>> >>

\* What one protected call of fn with the arguments actuals can do: the set of
\* its possible outcomes (the globals and files after it, what it printed,
\* whether it raised an error).
Exec(v, fn, actuals, g, fs) ==
    CASE fn.op = "cli_variable" ->
             LET ix == Index1(Param(actuals, fn.k)) IN
             IF ix.err THEN {Outcome(g, fs, <<>>, TRUE)}
             ELSE LET r == cliVariable(v, g, fn.arg, L_ToString(ix.v))
                  IN  {Outcome(r.globals, fs, r.out, FALSE)}
      [] fn.op = "cli_toggle" ->
             LET ix == IF fn.k = 0 THEN [err |-> FALSE, v |-> Str(fn.arg)]
                                   ELSE Index1(Param(actuals, fn.k)) IN
             IF ix.err THEN {Outcome(g, fs, <<>>, TRUE)}
             ELSE LET r == cliToggle(g, L_ToString(ix.v))
                  IN  {Outcome(r.globals, fs, r.out, FALSE)}
      [] fn.op = "cli_cd" ->
             LET ix == Index1(Param(actuals, fn.k)) IN
             IF ix.err THEN {Outcome(g, fs, <<>>, TRUE)}
             ELSE LET r == cliCd(g, fn.arg, L_ToString(ix.v))
                  IN  {Outcome(r.globals, fs, r.out, r.panic)}
      [] fn.op = "cli_envvar" ->
             LET ix == Index1(Param(actuals, fn.k)) IN
             IF ix.err THEN {Outcome(g, fs, <<>>, TRUE)}
             ELSE LET r == cliEnvvar(env, fn.arg, L_ToString(ix.v))
                  IN  {[Outcome(g, fs, r.out, FALSE) EXCEPT !.env = r.env]}
      \* function do_r(args) local count = "l"; print(t(args[1])) end
      [] fn.op = "template" ->
             LET ix == Index1(Param(actuals, fn.k))
                 locals == LocalsOfR(actuals)
             IN
             IF ix.err THEN {Outcome(g, fs, <<>>, TRUE)}
             ELSE {Printed(cliTemplate(v, g, env, locals, L_ToString(ix.v)), fs)}
      [] fn.op = "tempfile" ->
             LET p == Param(actuals, fn.k) IN
             IF p.t # "string" THEN {Outcome(g, fs, <<>>, TRUE)}
             ELSE { Outcome(g, fs2, <<>>, e) :
                      fs2 \in {fs, WriteFile(fs, p.s), Remove(fs, p.s)},
                      e \in BOOLEAN }
      [] fn.op = "error" -> {Outcome(g, fs, <<>>, TRUE)}
      [] fn.op = "noop"  -> {Outcome(g, fs, << <<"Another hello world!">> >>, FALSE)}
      [] OTHER           -> {Outcome(g, fs, <<>>, FALSE)}

\* L.CallByParam(P{Fn: fn, NRet: 1, Protect: true}) on the value stack st:
\* on success the one result is pushed; on an error nothing is pushed.
CallByParam1(fn, st) ==
    CASE fn.op = "return" -> [err |-> FALSE, stack |-> Append(st, Str(fn.arg))]
      [] fn.op = "error"  -> [err |-> TRUE, stack |-> st]
      [] OTHER            -> [err |-> FALSE, stack |-> Append(st, Nil)]

\* L.Get(-1): the top of the stack, nil when it is empty
Top(st) == IF st = <<>> THEN Nil ELSE st[Len(st)]

ErrLine == << <<"error">> >>

\* ------------------------------------------------------ command registry
\* sort.Strings, as an insertion sort
RECURSIVE InsertSorted(_, _)
InsertSorted(sorted, x) ==
    IF sorted = <<>> THEN <<x>>
    ELSE IF StrLess(x, Head(sorted)) THEN <<x>> \o sorted
    ELSE <<Head(sorted)>> \o InsertSorted(Tail(sorted), x)

RECURSIVE SortStrings(_)
SortStrings(seq) ==
    IF seq = <<>> THEN <<>>
    ELSE InsertSorted(SortStrings(SubSeq(seq, 1, Len(seq) - 1)), seq[Len(seq)])

\* The orders in which globals.ForEach may visit the entries of the table
\* (the table holds no entry for a nil value): the rotations of one
\* enumeration of the keys, forwards and backwards.
RECURSIVE SeqOfSet(_)
SeqOfSet(S) ==
    IF S = {} THEN <<>>
    ELSE LET x == CHOOSE y \in S : \A z \in S \ {y} : StrLess(y, z)
         IN  <<x>> \o SeqOfSet(S \ {x})

Rotate(seq, i) == SubSeq(seq, i + 1, Len(seq)) \o SubSeq(seq, 1, i)
Reverse(seq) == [i \in 1..Len(seq) |-> seq[Len(seq) + 1 - i]]

ForEachOrders(g) ==
    LET base == SeqOfSet({n \in DOMAIN g : g[n].t # "nil"})
    IN  { Rotate(base, i) : i \in 0..(Len(base) - 1) } \cup
        { Reverse(Rotate(base, i)) : i \in 0..(Len(base) - 1) } \cup {base}

\* The slice `commands` of printCommands after the ForEach over the globals
\* in the given order.
RECURSIVE CollectCommands(_, _)
CollectCommands(g, order) ==
    IF order = <<>> THEN <<>>
    ELSE LET k == Head(order) IN
         (IF g[k].t = "function" /\ HasPrefix(k, T_do) THEN <<Drop(k, 3)>> ELSE <<>>)
         \o CollectCommands(g, Tail(order))

\* printCommands without its sort.Strings
printCommands_Unsorted(g, order) ==
    << <<"Available commands:">> >> \o CollectCommands(g, order)

\* printCommands: the lines it prints
printCommands(g, order) ==
    << <<"Available commands:">> >> \o SortStrings(CollectCommands(g, order))

\* The lines printed for a help text: TrimSpace, Split on "\n", TrimSpace of
\* each line.
HelpLines(text) ==
    LET ls == SplitLines(TrimSpace(text), <<>>, <<>>)
    IN  [i \in 1..Len(ls) |-> TrimSpace(ls[i])]

\* The test as the comment in example.lua describes it (a third parameter).
NeedsScratch_Three(f) == f.np = 3

\* The dispatch takes the scratch-file branch: fn.Proto.NumParameters == 2
NeedsScratch(f) == f.np = 2

\* The names ioutil.TempFile("", "simplecli") can return.
TmpNames == { <<"/", "t", "m", "p", "/", Digits[i + 1]>> : i \in 1..MaxTmp }

\* ---------------------------------------------------------------- Run
\* The parts of the line being dispatched.
sp    == shlexSplit(line)
parts == sp.parts
cmd   == parts[1]
args  == Tail(parts)

\* A help verb that a script-defined do_help would shadow.
isHelp_Overridable ==
    /\ variant # "part_001" /\ cmd = T_help
    /\ GetGlobal(globals, T_do \o T_help).t # "function"

\* The help verb exists in main.go and example.lua only.
isHelp == variant # "part_001" /\ cmd = T_help

\* L.GetGlobal("do_" + cmd)
fn == GetGlobal(globals, T_do \o cmd)

\* A call with NRet: 1 made by Run itself, for the banner (shown: the result
\* is printed) and the prompt.  example.lua pops the result afterwards;
\* L.Pop on an empty stack raises "register underflow", outside any protected
\* call.
CallFromRun(fnv, shown, next) ==
    LET r == CallByParam1(fnv, stack) IN
    /\ Len(r.stack) <= MaxStack
    /\ out' = out \o (IF r.err THEN ErrLine ELSE <<>>)
                  \o (IF shown THEN <<ValueString(Top(r.stack))>> ELSE <<>>)
    /\ IF variant = "example.lua"
       THEN IF r.stack = <<>>
            THEN pc' = "Crashed" /\ stack' = r.stack
                 /\ last' = "panic: register underflow"
            ELSE /\ pc' = next
                 /\ stack' = SubSeq(r.stack, 1, Len(r.stack) - 1)
                 /\ UNCHANGED last
       ELSE pc' = next /\ stack' = r.stack /\ UNCHANGED last

\* Starting: the banner.
Banner ==
    /\ pc = "Starting"
    /\ IF GetGlobal(globals, N_banner).t = "function"
       THEN CallFromRun(GetGlobal(globals, N_banner), TRUE, "Prompting")
       ELSE pc' = "Prompting" /\ UNCHANGED <<out, stack, last>>
    /\ UNCHANGED <<variant, env, globals, files, line, callee, callArgs, tmpfilename>>

\* Prompting: the prompt function, at the top of the loop.
Prompt ==
    /\ pc = "Prompting"
    /\ IF GetGlobal(globals, N_prompt).t = "function"
       THEN CallFromRun(GetGlobal(globals, N_prompt), FALSE, "ReadingLine")
       ELSE pc' = "ReadingLine" /\ UNCHANGED <<out, stack, last>>
    /\ UNCHANGED <<variant, env, globals, files, line, callee, callArgs, tmpfilename>>

\* rl.Readline() returns io.EOF: break
ReadEOF ==
    /\ pc = "ReadingLine"
    /\ pc' = "Stopped" /\ last' = "eof" /\ out' = <<>> /\ line' = <<>>
    /\ UNCHANGED <<variant, env, globals, files, callee, callArgs, tmpfilename, stack>>

\* rl.Readline() returns ErrInterrupt with the text typed so far
ReadInterrupt ==
    /\ pc = "ReadingLine"
    /\ \E buf \in {<<>>, <<"z">>} :
         IF Len(buf) = 0
         THEN pc' = "Stopped" /\ last' = "interrupt"
         ELSE pc' = "Prompting" /\ last' = "discarded"
    /\ out' = <<>> /\ line' = <<>>
    /\ UNCHANGED <<variant, env, globals, files, callee, callArgs, tmpfilename, stack>>

\* rl.Readline() returns a line: trim it, skip it if nothing is left
ReadLine ==
    /\ pc = "ReadingLine"
    /\ \E raw \in TypedLines(globals) :
         LET trimmed == TrimSpace(raw) IN
         IF trimmed = <<>>
         THEN pc' = "Prompting" /\ last' = "empty" /\ line' = <<>>
         ELSE pc' = "Dispatching" /\ last' = "read" /\ line' = trimmed
    /\ out' = <<>>
    /\ UNCHANGED <<variant, env, globals, files, callee, callArgs, tmpfilename, stack>>

\* shlex.Split fails.  main.go and example.lua report and continue; part_001
\* reports, sets parts to an empty slice and goes on to parts[0].
DispatchSplitError ==
    /\ pc = "Dispatching" /\ sp.err
    /\ out' = out \o << <<"Error splitting up command string:">> >>
    /\ IF variant = "part_001"
       THEN pc' = "Crashed" /\ last' = "panic: index out of range"
       ELSE pc' = "Prompting" /\ last' = "tokerr"
    /\ UNCHANGED <<variant, env, globals, files, line, callee, callArgs, tmpfilename, stack>>

\* shlex.Split returns no word (the line is a comment): parts[0] is out of range
DispatchNoWords ==
    /\ pc = "Dispatching" /\ ~sp.err /\ parts = <<>>
    /\ pc' = "Crashed" /\ last' = "panic: index out of range"
    /\ UNCHANGED <<variant, env, globals, files, line, callee, callArgs, tmpfilename,
                   out, stack>>

\* help
DispatchHelpList ==
    /\ pc = "Dispatching" /\ ~sp.err /\ parts # <<>> /\ isHelp /\ args = <<>>
    /\ \E order \in ForEachOrders(globals) :
         out' = out \o printCommands(globals, order)
    /\ pc' = "Prompting" /\ last' = "helplist"
    /\ UNCHANGED <<variant, env, globals, files, line, callee, callArgs, tmpfilename, stack>>

\* help <name>: example.lua prints the string help_<name>; main.go calls the
\* function help_<name> and prints the text on top of the stack, which it
\* leaves there.
DispatchHelpFor ==
    /\ pc = "Dispatching" /\ ~sp.err /\ parts # <<>> /\ isHelp /\ args # <<>>
    /\ LET helpText == GetGlobal(globals, T_helpPfx \o args[1])
           nohelp   == << <<"No help for command: ">> \o args[1] >>
       IN  IF variant = "example.lua"
           THEN /\ out' = out \o (IF helpText.t # "string" THEN nohelp
                                                          ELSE HelpLines(helpText.s))
                /\ last' = IF helpText.t # "string" THEN "nohelp" ELSE "helptext"
                /\ UNCHANGED stack
           ELSE IF helpText.t # "function"
                THEN out' = out \o nohelp /\ last' = "nohelp" /\ UNCHANGED stack
                ELSE LET r == CallByParam1(helpText, stack) IN
                     /\ Len(r.stack) <= MaxStack
                     /\ out' = out \o (IF r.err THEN ErrLine ELSE <<>>)
                                   \o HelpLines(L_ToString(Top(r.stack)))
                     /\ stack' = r.stack
                     /\ last' = "helptext"
    /\ pc' = "Prompting"
    /\ UNCHANGED <<variant, env, globals, files, line, callee, callArgs, tmpfilename>>

\* do_<cmd> is not a function
DispatchUnknown ==
    /\ pc = "Dispatching" /\ ~sp.err /\ parts # <<>> /\ ~isHelp
    /\ fn.t # "function"
    /\ out' = out \o << <<"Unknown command: ">> \o cmd >>
    /\ pc' = "Prompting" /\ last' = "unknown"
    /\ UNCHANGED <<variant, env, globals, files, line, callee, callArgs, tmpfilename, stack>>

\* example.lua reads fn.Proto.NumParameters; a host function has a nil Proto
DispatchNilProto ==
    /\ pc = "Dispatching" /\ ~sp.err /\ parts # <<>> /\ ~isHelp
    /\ fn.t = "function" /\ fn.g /\ variant = "example.lua"
    /\ pc' = "Crashed" /\ last' = "panic: nil dereference"
    /\ UNCHANGED <<variant, env, globals, files, line, callee, callArgs, tmpfilename,
                   out, stack>>

\* example.lua, a function of two parameters: make the temporary file and
\* call fn(args, tmpfilename); or report that the file could not be made
DispatchScratch ==
    /\ pc = "Dispatching" /\ ~sp.err /\ parts # <<>> /\ ~isHelp
    /\ fn.t = "function" /\ ~fn.g /\ variant = "example.lua" /\ NeedsScratch(fn)
    /\ \/ /\ pc' = "Prompting" /\ last' = "tmperr"
          /\ out' = out \o ErrLine
          /\ UNCHANGED <<files, callee, callArgs, tmpfilename>>
       \/ \E name \in TmpNames :
          /\ ~Exists(files, name)
          /\ files' = CreateEmpty(files, name)
          /\ tmpfilename' = name
          /\ callee' = fn
          /\ callArgs' = <<Tbl(args), Str(name)>>
          /\ pc' = "Running" /\ last' = "called"
          /\ UNCHANGED out
    /\ UNCHANGED <<variant, env, globals, line, stack>>

\* every other function: example.lua calls fn(args), the older variants
\* fn(cmd, args)
DispatchPlain ==
    /\ pc = "Dispatching" /\ ~sp.err /\ parts # <<>> /\ ~isHelp
    /\ fn.t = "function"
    /\ variant = "example.lua" => (~fn.g /\ ~NeedsScratch(fn))
    /\ callee' = fn
    /\ callArgs' = IF variant = "example.lua" THEN <<Tbl(args)>>
                                               ELSE <<Str(cmd), Tbl(args)>>
    /\ pc' = "Running" /\ last' = "called"
    /\ UNCHANGED <<variant, env, globals, files, line, tmpfilename, out, stack>>

\* What is left of the files after the call of the scratch branch returned:
\* os.Remove(tmpfilename), whether or not the call failed.  (tmp is <<>> in
\* the other branch, which removes nothing.)
AfterCall_SkipOnError(fs, tmp, err) ==
    IF tmp # <<>> /\ ~err THEN Remove(fs, tmp) ELSE fs

AfterCall(fs, tmp, err) == IF tmp # <<>> THEN Remove(fs, tmp) ELSE fs

\* The function runs and the protected call returns: an error is printed,
\* the temporary file of the dispatch is removed, and the loop continues.
CommandReturn ==
    /\ pc = "Running"
    /\ \E o \in Exec(variant, callee, callArgs, globals, files) :
         /\ Len(ValueString(GetGlobal(o.globals, N_cwd))) <= MaxPath
         /\ globals' = o.globals
         /\ env' = o.env
         /\ files' = AfterCall(o.files, tmpfilename, o.err)
         /\ out' = out \o o.out \o (IF o.err THEN ErrLine ELSE <<>>)
         /\ last' = IF o.err THEN "failed" ELSE "returned"
    /\ pc' = "Prompting"
    /\ callee' = Nil /\ callArgs' = <<>> /\ tmpfilename' = <<>>
    /\ UNCHANGED <<variant, line, stack>>

\* ------------------------------------------------------- specifications
InitCommon ==
    /\ pc = "Starting"
    /\ env = Environ
    /\ files = {}
    /\ line = <<>>
    /\ callee = Nil
    /\ callArgs = <<>>
    /\ tmpfilename = <<>>
    /\ out = <<>>
    /\ stack = <<>>
    /\ last = "none"

\* the newest variant
Init ==
    /\ variant = "example.lua"
    /\ \E s \in Scripts : globals = registerLuaFunctions(variant, s)
    /\ InitCommon

\* any of the three variants
InitAll ==
    /\ variant \in Variants
    /\ \E s \in Scripts : globals = registerLuaFunctions(variant, s)
    /\ InitCommon

\* the newest variant with the script that uses every primitive
InitPrim ==
    /\ variant = "example.lua"
    /\ globals = registerLuaFunctions(variant, PrimitivesScript)
    /\ InitCommon

\* the newest variant with the script of the variable primitives
InitVars ==
    /\ variant = "example.lua"
    /\ globals = registerLuaFunctions(variant, VariablesScript)
    /\ InitCommon

Next ==
    \/ Banner
    \/ Prompt
    \/ ReadEOF
    \/ ReadInterrupt
    \/ ReadLine
    \/ DispatchSplitError
    \/ DispatchNoWords
    \/ DispatchHelpList
    \/ DispatchHelpFor
    \/ DispatchUnknown
    \/ DispatchNilProto
    \/ DispatchScratch
    \/ DispatchPlain
    \/ CommandReturn

Spec == Init /\ [][Next]_vars

SpecAll == InitAll /\ [][Next]_vars

SpecPrim == InitPrim /\ [][Next]_vars

SpecVars == InitVars /\ [][Next]_vars

\* ------------------------------------------------------------ properties
L_get       == <<"g", "e", "t">>
L_edit      == <<"e", "d", "i", "t">>
L_myvar_foo == N_myvar \o <<" ">> \o T_foo
L_help_myvar == T_help \o <<" ">> \o N_myvar
L_set_z     == <<"s", "e", "t", " ", "z">>
L_set_12    == <<"s", "e", "t", " ", "'", "1", "2", "'">>

\* the exits of the loop body taken by the help verb
HelpExits == {"helplist", "nohelp", "helptext"}

\* the line being (or last) dispatched has a first word, and it is `help`
VerbIsHelp == line # <<>> /\ ~sp.err /\ parts # <<>> /\ cmd = T_help

\* C1: in the scratch-file branch the temporary file exists and is empty when
\* the command body starts, its path is what the command receives, and no
\* temporary file exists whenever the loop is in Prompting, whether the
\* command returned or failed.
C1_ScratchLifecycle ==
    /\ (pc = "Running" /\ callee.np = 2) =>
           /\ tmpfilename # <<>>
           /\ [name |-> tmpfilename, size |-> 0] \in files
           /\ Param(callArgs, 2) = Str(tmpfilename)
    /\ pc = "Prompting" => files = {}

\* a scratch command failed and the loop is back in Prompting
C1_Witness ==
    pc = "Prompting" /\ line = L_get /\ last = "failed" /\ files = {}

\* C2: the process never terminates from inside Dispatching (whatever the
\* line and whatever function do_<verb> holds), and the loop stops only on
\* end of input or on an interrupt with an empty line.
C2_DispatchNeverTerminates ==
    /\ pc = "Stopped" => last \in {"eof", "interrupt"}
    /\ pc = "Crashed" =>
           last \notin {"panic: index out of range", "panic: nil dereference"}

\* C3: a line whose tokenization fails is reported and the loop goes back to
\* Prompting without resolving or invoking a command; it is never fatal.
C3_SplitErrorNotFatal ==
    (pc # "Dispatching" /\ line # <<>> /\ sp.err) =>
        (pc \notin {"Crashed", "Running"} /\ last = "tokerr")

C5_ThirdParameterIsTempFile ==
    (pc = "Running" /\ ~callee.g /\ callee.np = 3) =>
        /\ Param(callArgs, 3).t = "string"
        /\ [name |-> Param(callArgs, 3).s, size |-> 0] \in files

\* C6: with the README's do_myvar, after the line `myvar foo` has been
\* dispatched the global myvar is "foo" and `myvar=foo` was printed.
C6_MyvarFoo ==
    (pc = "Prompting" /\ line = L_myvar_foo /\ last \in {"returned", "failed"}) =>
        /\ GetGlobal(globals, N_myvar) = Str(T_foo)
        /\ out = << N_myvar \o <<"=">> \o T_foo >>

\* the commands a `help` must list: the do_ functions, prefix stripped
ExpectedCommands ==
    { Drop(n, 3) : n \in { m \in DOMAIN globals :
                             globals[m].t = "function" /\ HasPrefix(m, T_do) } }

\* C7: the list printed by `help` is exactly the names of the globals that
\* are functions and start with do_, prefix stripped, strictly ascending,
\* whatever the order in which the globals are visited; and printing it
\* changes neither the globals, nor the files, nor the value stack.
C7_HelpList ==
    /\ [](pc = "Prompting" /\ last = "helplist" =>
            /\ Len(out) >= 1
            /\ Head(out) = <<"Available commands:">>
            /\ { Tail(out)[i] : i \in 1..(Len(out) - 1) } = ExpectedCommands
            /\ \A i, j \in 1..(Len(out) - 1) :
                   i < j => StrLess(Tail(out)[i], Tail(out)[j]))
    /\ [][(pc = "Dispatching" /\ last' = "helplist") =>
            (globals' = globals /\ files' = files /\ stack' = stack)]_vars

\* a list was printed with a non-function do_ global and a host function
\* bound to a do_ name among the globals
C7_Witness ==
    /\ pc = "Prompting" /\ last = "helplist"
    /\ globals[N_do_b].t = "string"
    /\ globals[N_do_p].t = "function"
    /\ Len(out) = 7

\* C8: a line whose verb is `help` is handled by the help path: no do_
\* command is invoked for it, no scratch file is created and the loop goes
\* back to Prompting, also when the script defines do_help.
C8_HelpNotOverridable ==
    (VerbIsHelp /\ pc # "Dispatching") =>
        /\ pc \notin {"Running", "Crashed"}
        /\ last \in HelpExits
        /\ files = {}
        /\ callee = Nil

\* `help` was handled by the help path although do_help is a function
C8_Witness ==
    /\ pc = "Prompting" /\ line = T_help /\ last = "helplist"
    /\ globals[N_do_help].t = "function"

\* C9: for `help myvar`, the help text is printed when help_myvar is a
\* string or a function returning the text, and "No help for command" is
\* printed only when help_myvar is absent.
C9_HelpFor ==
    (pc = "Prompting" /\ line = L_help_myvar /\ last \in HelpExits) =>
        LET h == GetGlobal(globals, N_help_myvar) IN
        /\ h.t \in {"string", "function"} => out = << <<"a">>, <<"b">> >>
        /\ last = "nohelp" => h.t = "nil"

\* the text typed after the verb, as do_set hands it to cli_variable
FirstArg == IF args = <<>> THEN <<>> ELSE args[1]

\* C10: cli_variable on a numeric variable: a non-empty text that is no
\* number is reported and leaves the globals as they were; a number is
\* stored as a number; an empty text never changes the globals.
C10_NumericVariable ==
    [][(pc = "Running" /\ callee.op = "cli_variable" /\ callee.k = 1
          /\ GetGlobal(globals, callee.arg).t = "number") =>
         /\ FirstArg = <<>> => globals' = globals
         /\ (FirstArg # <<>> /\ ~ParseFloat(FirstArg).ok) =>
              /\ globals' = globals
              /\ out' = << <<"You must provide a number for numeric variable ">>
                           \o callee.arg >>
         /\ ParseFloat(FirstArg).ok =>
              /\ globals'[callee.arg] = Num(ParseFloat(FirstArg).f)
              /\ \A n \in DOMAIN globals \ {callee.arg} : globals'[n] = globals[n]
              /\ DOMAIN globals' = DOMAIN globals
         /\ FirstArg = <<"z">> => globals' = globals
         /\ FirstArg = <<"1", "2">> => globals'[callee.arg] = Num(12)
      ]_vars
    /\ [][(pc = "Running" /\ callee.op = "cli_variable"
          /\ ~Index1(Param(callArgs, callee.k)).err
          /\ L_ToString(Index1(Param(callArgs, callee.k)).v) = <<>>) =>
         globals' = globals]_vars

\* the count was set to 12 and a later `set z` was rejected
C10_Witness ==
    /\ pc = "Prompting" /\ line = L_set_z /\ last = "returned"
    /\ globals[N_count] = Num(12)

\* ----------------------------------------------------- cli_toggle (C11, C12)
T_true  == <<"t", "r", "u", "e">>
T_false == <<"f", "a", "l", "s", "e">>

\* the step in which a command whose body is a call of cli_toggle runs
ToggleRuns == pc = "Running" /\ callee.t = "function" /\ callee.op = "cli_toggle"

\* the name that body hands to cli_toggle
ToggledName == IF callee.k = 0 THEN callee.arg ELSE FirstArg

\* C11 as stated: toggle takes an absent or non-boolean current value (a
\* string or a number) as false, so it stores true and prints name=true; a
\* boolean current value is negated.
C11_NonBooleanCountsAsFalse ==
    [][ToggleRuns =>
         LET cur == GetGlobal(globals, ToggledName) IN
         /\ cur.t = "bool" => globals'[ToggledName] = Bool(~cur.b)
         /\ cur.t # "bool" =>
              /\ globals'[ToggledName] = Bool(TRUE)
              /\ out' = <<ToggledName \o <<"=">> \o T_true>>
      ]_vars

\* C11, amended: toggle stores true and prints name=true when the variable is
\* absent or false; it stores false and prints name=false when the variable
\* is true or holds any non-boolean value (a string or a number); no other
\* variable changes.
C11_ToggleByTruthiness ==
    [][ToggleRuns =>
         LET cur == GetGlobal(globals, ToggledName) IN
         /\ (cur.t = "nil" \/ cur = Bool(FALSE)) =>
              /\ globals'[ToggledName] = Bool(TRUE)
              /\ out' = <<ToggledName \o <<"=">> \o T_true>>
         /\ (cur.t \in {"string", "number"} \/ cur = Bool(TRUE)) =>
              /\ globals'[ToggledName] = Bool(FALSE)
              /\ out' = <<ToggledName \o <<"=">> \o T_false>>
         /\ \A n \in DOMAIN globals \ {ToggledName} : globals'[n] = globals[n]
      ]_vars

\* the number count and the string myvar were toggled: both hold false
C11_Witness ==
    /\ pc = "Prompting" /\ last = "returned" /\ line = L_toggle_count
    /\ out = <<N_count \o <<"=">> \o T_false>>
    /\ globals[N_count] = Bool(FALSE)
    /\ globals[N_myvar] = Bool(FALSE)

\* C12: a toggle of a variable that is undeclared stores true and prints
\* name=true, and the next toggle stores false and prints name=false; a toggle
\* of a boolean variable negates it, and the next toggle (no other write in
\* between) puts the original value back.
C12_TwoToggles ==
    [][ToggleRuns =>
         LET cur == GetGlobal(globals, ToggledName)
             nxt == cliToggle(globals', ToggledName)
         IN
         /\ cur.t = "nil" =>
              /\ out' = <<ToggledName \o <<"=">> \o T_true>>
              /\ nxt.out = <<ToggledName \o <<"=">> \o T_false>>
              /\ nxt.globals[ToggledName] = Bool(FALSE)
         /\ cur.t = "bool" =>
              /\ globals'[ToggledName] = Bool(~cur.b)
              /\ nxt.globals[ToggledName] = cur
              /\ \A n \in DOMAIN globals : nxt.globals[n] = globals[n]
      ]_vars

\* debug_mode, undeclared in the script, after `toggle debug_mode` twice
C12_Witness ==
    /\ pc = "Prompting" /\ last = "returned" /\ line = L_toggle_debug
    /\ out = <<N_debug_mode \o <<"=">> \o T_false>>
    /\ globals[N_debug_mode] = Bool(FALSE)
    /\ globals[N_count].t = "number" /\ globals[N_myvar].t = "string"

\* ------------------------------------------------------- cli_cd (C13 - C16)
T_root == <<"/">>

\* the step in which a command whose body is cli_cd(arg, args[1]) runs
CdRuns == pc = "Running" /\ callee.t = "function" /\ callee.op = "cli_cd"

\* the new value is relative: not empty and not starting with "/"
CdRelative == FirstArg # <<>> /\ ~HasPrefix(FirstArg, T_root)

\* C13 as stated: cli_cd with an empty new value does not change the stored
\* value, it only reports it.
C13_EmptyValueOnlyReports ==
    [][(CdRuns /\ FirstArg = <<>>) =>
         /\ globals' = globals
         /\ out' = <<Confirmation(globals, callee.arg)>>
      ]_vars

\* C13, amended: cli_cd with an empty new value stores "/" whatever the
\* variable held, prints name=/, and changes no other variable.
C13_EmptyValueStoresRoot ==
    [][(CdRuns /\ FirstArg = <<>>) =>
         /\ globals'[callee.arg] = Str(T_root)
         /\ out' = <<callee.arg \o <<"=">> \o T_root>>
         /\ \A n \in DOMAIN globals \ {callee.arg} : globals'[n] = globals[n]
      ]_vars

\* `cd` was typed and the path variable holds "/"
C13_Witness ==
    /\ pc = "Prompting" /\ last = "returned" /\ line = L_cd
    /\ globals[N_cwd] = Str(T_root)
    /\ out = <<N_cwd \o <<"=">> \o T_root>>

\* C14: whatever text the path variable holds, cli_cd with the new value "."
\* leaves it as it is.
C14_DotChangesNothing ==
    [][(CdRuns /\ FirstArg = <<".">> /\ GetGlobal(globals, callee.arg).t = "string") =>
         globals'[callee.arg] = globals[callee.arg]
      ]_vars

\* C15: with the path variable unset, a relative new value is resolved
\* against "/" (unset + a stores /a/) and the call does not fail.
C15_UnsetResolvesAgainstRoot ==
    [][(CdRuns /\ CdRelative /\ GetGlobal(globals, callee.arg).t = "nil") =>
         /\ last' = "returned"
         /\ globals'[callee.arg] =
              cliCd(SetGlobal(globals, callee.arg, Str(T_root)),
                    callee.arg, FirstArg).globals[callee.arg]
         /\ FirstArg = <<"a">> => globals'[callee.arg] = Str(<<"/", "a", "/">>)
      ]_vars

\* C16: after a relative new value the stored text starts with "/" and ends
\* with exactly one "/"; from "/", a/b stores /a/b/, and .. then stores /a/;
\* .. at the root stores "/".
C16_RelativeIsNormalised ==
    [][(CdRuns /\ CdRelative) =>
         LET old == GetGlobal(globals, callee.arg)
             new == globals'[callee.arg]
         IN
         /\ new.t = "string"
         /\ new.s[1] = "/"
         /\ new.s[Len(new.s)] = "/"
         /\ Len(new.s) > 1 => new.s[Len(new.s) - 1] # "/"
         /\ (old = Str(T_root) /\ FirstArg = <<"a", "/", "b">>) =>
              new = Str(<<"/", "a", "/", "b", "/">>)
         /\ (old = Str(<<"/", "a", "/", "b", "/">>) /\ FirstArg = <<".", ".">>) =>
              new = Str(<<"/", "a", "/">>)
         /\ (old = Str(T_root) /\ FirstArg = <<".", ".">>) => new = Str(T_root)
      ]_vars

\* ------------------------------------------------------- templates (C17 - C20)
\* the step in which the command do_r runs: print(t(args[1]))
RenderRuns == pc = "Running" /\ callee.t = "function" /\ callee.op = "template"

\* the loop is back at the prompt after the line l was dispatched to do_r
AfterRender(l) == pc = "Prompting" /\ line = l /\ last \in {"returned", "failed"}

C18_UnsetTagAndTableEntry ==
    /\ AfterRender(L_r_unset) => (last = "returned" /\ out = << <<"a", "b">> >>)
    /\ AfterRender(L_r_tbl) => (last = "returned" /\ out = <<T_v>>)
    /\ AfterRender(L_r_arg) => (last = "returned" /\ out = <<T_v>>)

\* a{{zz}}b was rendered as ab
C18_Witness ==
    /\ AfterRender(L_r_unset) /\ last = "returned"
    /\ out = << <<"a", "b">> >>
    /\ globals[N_tbl] = MapTbl(T_k, Str(T_v))

\* C19: a render leaves the globals as they were, whatever the template,
\* templates whose tags name script functions or host functions included.
C19_RenderLeavesGlobals ==
    [][RenderRuns => globals' = globals]_vars

\* C20: when a render fails, by a malformed template or by a tag function that
\* fails, no text comes back to the command (it gets nil) and the command
\* goes on after the call: do_r prints that nil and returns.
C20_FailedRenderReturnsToCommand ==
    (AfterRender(L_r_open) \/ AfterRender(L_r_fails)) =>
        /\ last = "returned"
        /\ out # <<>> /\ out[Len(out)] = <<"n", "i", "l">>

\* ---------------------------------------------------------------------------
\* C21.  Leaving ReadingLine without a dispatch: an interrupt with a non-empty
\* line buffer, or a line that is empty after strings.TrimSpace, takes the loop
\* back to Prompting with the Variable Store, the scratch files, the selected
\* callable and its scratch name untouched and nothing printed; a line that
\* does reach Dispatching is non-empty and has no surrounding whitespace.
C21_NoDispatchLeavesState ==
    [][pc = "ReadingLine" =>
         /\ last' \in {"discarded", "empty"} =>
              /\ pc' = "Prompting"
              /\ globals' = globals /\ files' = files /\ env' = env
              /\ callee' = callee /\ callArgs' = callArgs
              /\ tmpfilename' = tmpfilename
              /\ out' = <<>>
         /\ pc' = "Prompting" => last' \in {"discarded", "empty"}
         /\ pc' = "Dispatching" =>
              /\ line' # <<>>
              /\ ~IsSpace(Head(line')) /\ ~IsSpace(line'[Len(line')])]_vars

\* a line was skipped as empty while the store holds a string variable
C21_Witness ==
    /\ pc = "Prompting" /\ last = "empty"
    /\ \E n \in DOMAIN globals : globals[n].t = "string"

\* ---------------------------------------------------------------------------
\* C22.  A failing banner or prompt callable does not end the process: every
\* step out of Starting enters Prompting and every step out of Prompting
\* enters ReadingLine, whether or not the callable exists or fails.
C22_StartFnFailureNotFatal ==
    [][/\ pc = "Starting" => pc' = "Prompting"
       /\ pc = "Prompting" => pc' = "ReadingLine"]_vars

\* ---------------------------------------------------------------------------
\* the step in which a command whose body is a call of a variable primitive
\* runs
VariableRuns ==
    /\ pc = "Running" /\ callee.t = "function"
    /\ callee.op \in {"cli_variable", "cli_envvar", "cli_toggle", "cli_cd"}

\* the name and the new value that body hands to the primitive (the commands
\* with a scratch file hand it args[1] of the file name, which is nil)
PrimitiveName == IF callee.op = "cli_toggle" THEN ToggledName ELSE callee.arg
PrimitiveValue == IF callee.k = 1 THEN FirstArg ELSE <<>>

\* the call is cli_variable of a text that is no number on a numeric variable
NumericRejection ==
    /\ callee.op = "cli_variable"
    /\ GetGlobal(globals, callee.arg).t = "number"
    /\ PrimitiveValue # <<>>
    /\ ~ParseFloat(PrimitiveValue).ok

T_mustProvide == <<"You must provide a number for numeric variable ">>

C24_DeclaredTypeKept ==
    \A n \in DOMAIN VariablesScript :
        /\ VariablesScript[n].t \in {"string", "number", "bool"} =>
               GetGlobal(globals, n).t = VariablesScript[n].t
        /\ VariablesScript[n].t # "nil" => GetGlobal(globals, n).t # "nil"

\* ---------------------------------------------------------------------------
\* C25.  Once the banner has been dealt with, no step of the loop changes the
\* height of the value stack (so the height is the same at every entry to
\* Prompting: each invocation made by the loop removes the return value it
\* asked for), and no step pops the stack below empty.
C25_StackHeightConstant ==
    [][/\ pc # "Starting" => Len(stack') = Len(stack)
       /\ last' # "panic: register underflow"]_vars

====
